---- MODULE Spec2Model ----
(***************************************************************************)
(* Model of server.js: the per-subject link directory with its two         *)
(* storage variants (MongoDB collection, or the data.json document).       *)
(*                                                                         *)
(* Every request handler is an async function.  Its synchronous first      *)
(* segment (up to the first await) is the action named after the           *)
(* operation; every await is a yield point, and the segment that runs      *)
(* when the awaited I/O completes is an action of its own, so that the     *)
(* handlers of concurrently served requests interleave exactly at the      *)
(* awaits.  An I/O operation takes effect atomically when it completes.    *)
(* I/O failures (disk error, lost connection) are not modelled, except     *)
(* for the read of a data file that has been removed.                      *)
(***************************************************************************)
EXTENDS Integers, Sequences, FiniteSets, TLC

\* ---- bounds of the model
MaxRequests == 3     \* requests served in one behaviour
MaxTicks == 1        \* milliseconds that pass in one behaviour
MaxRemovals == 1     \* times data.json is removed from outside

\* connections that can have a request in flight at the same time
Clients == {"c1", "c2"}

\* Date.now() when the server starts listening
Epoch == 999

\* ---- JavaScript values
Undefined == "$undefined"

\* !v for the values a JSON body field takes here (strings or absent)
Falsy(v) == v = Undefined \/ v = ""

\* ---- Subjects metadata
SUBJECTS ==
  [k \in {"toc", "ai", "sepm", "cn", "rm"} |->
     CASE k = "toc" -> [name |-> "Theory of Computation", containerId |-> "tocLinks"]
       [] k = "ai" -> [name |-> "Artificial Intelligence", containerId |-> "aiLinks"]
       [] k = "sepm" -> [name |-> "Software Engineering Project Management", containerId |-> "sepmLinks"]
       [] k = "cn" -> [name |-> "Computer Networks", containerId |-> "cnLinks"]
       [] k = "rm" -> [name |-> "Research Methodology", containerId |-> "rmLinks"]]

\* Object.keys(SUBJECTS)
SubjectKeys == DOMAIN SUBJECTS

\* SUBJECTS is an object literal: a lookup of a name it does not own falls
\* through to Object.prototype, whose properties are truthy values.
ObjectPrototypeProps ==
  {"constructor", "toString", "valueOf", "hasOwnProperty", "__proto__"}

\* the truth value of SUBJECTS[key], as tested by `if (!subj)`
SubjectResolves(key) == key \in SubjectKeys \/ key \in ObjectPrototypeProps

\* ---- request inputs
\* req.params.key: two subjects, an inherited property name, an unknown name
ReqKeys == {"toc", "ai", "constructor", "nope"}

\* req.body of POST: {title, url, addedBy}, a field absent is Undefined
Bodies ==
  { [title |-> "T", url |-> "https://example.com", addedBy |-> Undefined],
    [title |-> Undefined, url |-> "https://example.com", addedBy |-> Undefined],
    [title |-> "T", url |-> "", addedBy |-> Undefined],
    [title |-> "T", url |-> "not-a-url", addedBy |-> Undefined] }

\* the strings `new URL(url)` accepts (an absolute URL: it has a scheme)
AbsoluteUrls == {"https://example.com", "https://x.test/cn1", "mailto:a@b.c"}

\* the URL check left out
URLParsesAnything(url) == TRUE

\* try { new URL(url) } catch { ... }: TRUE when the constructor returns
URLParses(url) == url \in AbsoluteUrls

\* ---- conversions
Digits36 ==
  << "0", "1", "2", "3", "4", "5", "6", "7", "8", "9", "a", "b", "c", "d",
     "e", "f", "g", "h", "i", "j", "k", "l", "m", "n", "o", "p", "q", "r",
     "s", "t", "u", "v", "w", "x", "y", "z" >>

\* Number.prototype.toString(36) of a non-negative integer, as its digits
RECURSIVE ToString36(_)
ToString36(n) ==
  IF n < 36 THEN << Digits36[n + 1] >>
  ELSE Append(ToString36(n \div 36), Digits36[(n % 36) + 1])

\* Date.prototype.toISOString of a time in ms: the string orders as the
\* pair (whole seconds, milliseconds within the second)
ToISOString(ms) == << ms \div 1000, ms % 1000 >>

\* the order of two ISO timestamps
IsoLeq(a, b) == a[1] < b[1] \/ (a[1] = b[1] /\ a[2] <= b[2])

\* ---- JSON fallback helpers
defaultJsonData == [k \in SubjectKeys |-> [name |-> SUBJECTS[k].name, links |-> << >>]]

\* the existence test left out: the default document is written on every read
EnsureWritesAlways(exists) == TRUE

\* ensureDataFile: the condition under which it writes the default document
EnsureWrites(exists) == ~exists

\* data[key]?.links || []  (an inherited property has no links)
DataLinks(data, key) == IF key \in DOMAIN data THEN data[key].links ELSE << >>

\* (l._id || '')
IdOf(l) == IF l._id = << >> THEN << >> ELSE l._id

\* list.findIndex(l => (l._id || '') === id), 1-based; 0 stands for -1
FindIndex(list, id) ==
  IF \E i \in 1..Len(list) : IdOf(list[i]) = id
  THEN CHOOSE i \in 1..Len(list) :
         /\ IdOf(list[i]) = id
         /\ \A j \in 1..(i - 1) : IdOf(list[j]) # id
  ELSE 0

\* list.splice(idx, 1): the list that is left
Splice(list, idx) == [i \in 1..(Len(list) - 1) |-> IF i < idx THEN list[i] ELSE list[i + 1]]

\* data[key].links.push(newLink)
PushLink(data, key, newLink) == [data EXCEPT ![key].links = Append(@, newLink)]

\* the document after const [removed] = list.splice(idx, 1)
SpliceLink(data, key, idx) == [data EXCEPT ![key].links = Splice(@, idx)]

\* a write that keeps what the file holds and adds the links it lacks
MergedDocument(data, onDisk) ==
  [k \in DOMAIN data |->
     [data[k] EXCEPT !.links =
        onDisk[k].links \o
        SelectSeq(data[k].links,
                  LAMBDA l : \A i \in 1..Len(onDisk[k].links) : onDisk[k].links[i] # l)]]

\* fs.writeJson(DATA_FILE, data): the whole file is replaced by `data`,
\* whatever the file held
WrittenDocument(data, onDisk) == data

\* addedBy || 'admin'
AddedByOrAdmin(addedBy) == IF Falsy(addedBy) THEN "admin" ELSE addedBy

\* ---- MongoDB
\* the ObjectId the driver generates for the n-th document of the process
ObjectId(n) == << "oid", n >>

\* a request parameter that is not the hex form of an ObjectId
NotAnObjectId == << "str", 0 >>

\* the cast of req.params.id to the schema's _id type succeeds
CastsToObjectId(id) == id[1] = "oid"

\* the filter { subjectKey: key }
FindBySubject(coll, key) == SelectSeq(coll, LAMBDA d : d.subjectKey = key)

\* one step of the sort: e placed after the elements that are not later
InsertByAddedAt(sorted, e) ==
  LET n == Cardinality({i \in 1..Len(sorted) : sorted[i].addedAt <= e.addedAt})
  IN SubSeq(sorted, 1, n) \o << e >> \o SubSeq(sorted, n + 1, Len(sorted))

\* .sort({ addedAt: 1 })
RECURSIVE SortByAddedAt(_)
SortByAddedAt(s) ==
  IF s = << >> THEN << >>
  ELSE InsertByAddedAt(SortByAddedAt(SubSeq(s, 1, Len(s) - 1)), s[Len(s)])

\* the query without its sort: the documents in insertion order
FindUnsorted(coll, key) == FindBySubject(coll, key)

\* Link.find({ subjectKey: key }).sort({ addedAt: 1 }).lean()
FindSorted(coll, key) == SortByAddedAt(FindBySubject(coll, key))

\* a filter on the id alone
MatchesDeleteById(d, key, id) == d._id = id

\* the filter { _id: id, subjectKey: key } of findOneAndDelete
MatchesDelete(d, key, id) == d._id = id /\ d.subjectKey = key

\* res.json of a document: the Date becomes its ISO string
ToJSON(d) == [d EXCEPT !.addedAt = ToISOString(@)]

\* res.json of a list of documents
ToJSONList(s) == [i \in 1..Len(s) |-> ToJSON(s[i])]

\* ---- state
VARIABLES
  useDb,       \* USE_DB, fixed when the process starts
  fileExists,  \* fs.pathExists(DATA_FILE)
  file,        \* the document in DATA_FILE (the default one while it is missing)
  db,          \* the Link collection, in insertion order
  clock,       \* the time, in ms, of the latest reading of the system clock
  nextOid,     \* the ObjectId counter of the process
  reqs,        \* per connection: the request being served, or its response
  left,        \* requests still to be received
  removals,    \* times DATA_FILE was removed
  delOk        \* the <<key, id>> last deleted with 200, no POST served since

vars == << useDb, fileExists, file, db, clock, nextOid, reqs, left, removals, delOk >>

\* a connection with no request in flight and its last response consumed
Free(c) == reqs[c].pc = "idle"

\* a new request is taken up once the responses sent have been consumed
Accepting(c) == Free(c) /\ \A o \in Clients : reqs[o].pc # "done"

\* a POST is being served on another connection
OtherAddInFlight(c) ==
  \E o \in Clients \ {c} : reqs[o].pc \notin {"idle", "done"} /\ reqs[o].op = "add"

\* the requests in flight when a POST is received: a DELETE among them is
\* no longer one with no POST since the DELETE before it
PostReceived(rs) ==
  [o \in Clients |-> IF rs[o].pc = "idle" THEN rs[o] ELSE [rs[o] EXCEPT !.afterDel = FALSE]]

\* the <<key, id>> to remember after the DELETE on c answered 200
Deleted(c, key, id) == IF OtherAddInFlight(c) THEN {} ELSE {<< key, id >>}

\* the times a reading of the clock can return: the clock never runs backwards
ClockReadings(from) == from..(IF from < Epoch + MaxTicks THEN from + 1 ELSE from)

\* a request as the handler is entered
NewReq(op, key, body, id) ==
  [pc |-> "entry", op |-> op, key |-> key, body |-> body, id |-> id,
   data |-> << >>, newLink |-> << >>, status |-> 0, resp |-> << >>,
   writes |-> 0, sawMissing |-> FALSE, afterDel |-> FALSE]

NoBody == [title |-> Undefined, url |-> Undefined, addedBy |-> Undefined]

\* res.status(status).json(resp)
Respond(r, status, resp) ==
  [r EXCEPT !.pc = "done", !.status = status, !.resp = resp,
            !.data = << >>, !.newLink = << >>]

\* the handler suspends at an await
Await(r, pc) == [r EXCEPT !.pc = pc]

\* the catch block of each handler
FailureMessage(op) ==
  CASE op = "getAll" -> [error |-> "Failed to read subjects"]
    [] op = "get" -> [error |-> "Failed to read links"]
    [] op = "add" -> [error |-> "Failed to add link"]
    [] op = "delete" -> [error |-> "Failed to delete link"]

\* the first await of a handler that passed its checks
FirstAwait(op) ==
  IF useDb
  THEN CASE op \in {"getAll", "get"} -> "find"
         [] op = "add" -> "save"
         [] op = "delete" -> "findOneAndDelete"
  ELSE "pathExists"

\* req.params.id of a DELETE: an id handed out so far, or one that is not
IdParams ==
  IF useDb
  THEN {ObjectId(n) : n \in 1..(nextOid - 1)} \cup {NotAnObjectId}
  ELSE {ToString36(t) : t \in Epoch..clock}

Init ==
  /\ useDb \in BOOLEAN
  /\ fileExists = TRUE
  /\ file = defaultJsonData
  /\ db = << >>
  /\ clock = Epoch
  /\ nextOid = 1
  /\ reqs = [c \in Clients |-> [pc |-> "idle"]]
  /\ left = MaxRequests
  /\ removals = 0
  /\ delOk = {}

\* ---- the environment
\* data.json is removed from outside the process (the case ensureDataFile
\* tests for on every read)
RemoveDataFile ==
  /\ ~useDb
  /\ fileExists
  /\ removals < MaxRemovals
  /\ fileExists' = FALSE
  /\ file' = defaultJsonData
  /\ removals' = removals + 1
  /\ UNCHANGED << useDb, db, clock, nextOid, reqs, left, delOk >>

\* the client reads the response; the connection is free again
Consume(c) ==
  /\ reqs[c].pc = "done"
  /\ reqs' = [reqs EXCEPT ![c] = [pc |-> "idle"]]
  /\ UNCHANGED << useDb, fileExists, file, db, clock, nextOid, left, removals, delOk >>

\* ---- the handlers, up to their first await
\* GET /api/subjects
GetAllSubjects(c) ==
  /\ Accepting(c)
  /\ left > 0
  /\ left' = left - 1
  /\ reqs' = [reqs EXCEPT ![c] = Await(NewReq("getAll", "", NoBody, << >>), FirstAwait("getAll"))]
  /\ UNCHANGED << useDb, fileExists, file, db, clock, nextOid, removals, delOk >>

\* GET /api/subjects/:key/links
GetSubjectLinks(c, key) ==
  /\ Accepting(c)
  /\ left > 0
  /\ left' = left - 1
  /\ LET r == NewReq("get", key, NoBody, << >>)
     IN reqs' = [reqs EXCEPT ![c] =
          IF ~SubjectResolves(key)
          THEN Respond(r, 404, [error |-> "Subject not found"])
          ELSE Await(r, FirstAwait("get"))]
  /\ UNCHANGED << useDb, fileExists, file, db, clock, nextOid, removals, delOk >>

\* new Link({...}) inside Link.create: _id and the addedAt default are set
\* when the document is constructed
NewDocument(key, body, now) ==
  [_id |-> ObjectId(nextOid), subjectKey |-> key, title |-> body.title,
   url |-> body.url, addedBy |-> AddedByOrAdmin(body.addedBy), addedAt |-> now]

\* POST /api/subjects/:key/links
AddLink(c, key, body) ==
  /\ Accepting(c)
  /\ left > 0
  /\ left' = left - 1
  /\ delOk' = {}
  /\ LET r == NewReq("add", key, body, << >>)
     IN IF Falsy(body.title) \/ Falsy(body.url)
        THEN /\ reqs' = [PostReceived(reqs) EXCEPT ![c] = Respond(r, 400, [error |-> "Missing title or url"])]
             /\ UNCHANGED << clock, nextOid >>
        ELSE IF ~SubjectResolves(key)
        THEN /\ reqs' = [PostReceived(reqs) EXCEPT ![c] = Respond(r, 404, [error |-> "Subject not found"])]
             /\ UNCHANGED << clock, nextOid >>
        ELSE IF ~URLParses(body.url)
        THEN /\ reqs' = [PostReceived(reqs) EXCEPT ![c] = Respond(r, 400, [error |-> "Invalid URL"])]
             /\ UNCHANGED << clock, nextOid >>
        ELSE IF ~useDb
        THEN /\ reqs' = [PostReceived(reqs) EXCEPT ![c] = Await(r, "pathExists")]
             /\ UNCHANGED << clock, nextOid >>
        ELSE \E now \in ClockReadings(clock) :
               /\ reqs' = [PostReceived(reqs) EXCEPT ![c] =
                    Await([r EXCEPT !.newLink = NewDocument(key, body, now)], "save")]
               /\ clock' = now
               /\ nextOid' = nextOid + 1
  /\ UNCHANGED << useDb, fileExists, file, db, removals >>

\* DELETE /api/subjects/:key/links/:id
DeleteLink(c, key, id) ==
  /\ Accepting(c)
  /\ left > 0
  /\ left' = left - 1
  /\ LET r == [NewReq("delete", key, NoBody, id) EXCEPT !.afterDel = << key, id >> \in delOk]
     IN reqs' = [reqs EXCEPT ![c] =
          IF ~SubjectResolves(key)
          THEN Respond(r, 404, [error |-> "Subject not found"])
          ELSE Await(r, FirstAwait("delete"))]
  /\ UNCHANGED << useDb, fileExists, file, db, clock, nextOid, removals, delOk >>

\* ---- readJsonData and writeJsonData, one action per await
\* ensureDataFile: await fs.pathExists(DATA_FILE)
PathExists(c) ==
  /\ reqs[c].pc = "pathExists"
  /\ reqs' = [reqs EXCEPT ![c] =
       [@ EXCEPT !.pc = IF EnsureWrites(fileExists) THEN "writeDefault" ELSE "readJson",
                 !.sawMissing = ~fileExists]]
  /\ UNCHANGED << useDb, fileExists, file, db, clock, nextOid, left, removals, delOk >>

\* ensureDataFile: await fs.writeJson(DATA_FILE, defaultJsonData())
WriteDefault(c) ==
  /\ reqs[c].pc = "writeDefault"
  /\ file' = WrittenDocument(defaultJsonData, file)
  /\ fileExists' = TRUE
  /\ reqs' = [reqs EXCEPT ![c] = [@ EXCEPT !.pc = "readJson", !.writes = @ + 1]]
  /\ UNCHANGED << useDb, db, clock, nextOid, left, removals, delOk >>

\* readJsonData: fs.readJson(DATA_FILE) completes, and the handler runs on
\* to its response or to its next await
ReadJson(c) ==
  /\ reqs[c].pc = "readJson"
  /\ LET r == reqs[c]
         data == file
         list == DataLinks(data, r.key)
     IN reqs' = [reqs EXCEPT ![c] =
          IF ~fileExists
          THEN \* ENOENT: the file was removed after ensureDataFile
               Respond(r, 500, FailureMessage(r.op))
          ELSE CASE r.op = "getAll" ->
                      Respond(r, 200, [k \in SubjectKeys |->
                                 [name |-> SUBJECTS[k].name, links |-> DataLinks(data, k)]])
                 [] r.op = "get" -> Respond(r, 200, list)
                 [] r.op = "add" ->
                      IF r.key \notin DOMAIN data
                      THEN \* data[key] is an inherited property: .links.push throws
                           Respond(r, 500, FailureMessage("add"))
                      ELSE Await([r EXCEPT !.data = data], "stamp")
                 [] r.op = "delete" ->
                      IF FindIndex(list, r.id) = 0
                      THEN Respond(r, 404, [error |-> "Link not found"])
                      ELSE Await([r EXCEPT !.data = data], "writeJson")]
  /\ UNCHANGED << useDb, fileExists, file, db, clock, nextOid, left, removals, delOk >>

\* const newLink = { _id: Date.now().toString(36), ..., addedAt: new Date().toISOString() }
\* the clock is read twice
Stamp(c) ==
  /\ reqs[c].pc = "stamp"
  /\ \E t1 \in ClockReadings(clock) : \E t2 \in ClockReadings(t1) :
       /\ clock' = t2
       /\ LET r == reqs[c]
              newLink == [_id |-> ToString36(t1), subjectKey |-> r.key,
                          title |-> r.body.title, url |-> r.body.url,
                          addedBy |-> AddedByOrAdmin(r.body.addedBy),
                          addedAt |-> ToISOString(t2)]
          IN reqs' = [reqs EXCEPT ![c] = Await([r EXCEPT !.newLink = newLink], "writeJson")]
  /\ UNCHANGED << useDb, fileExists, file, db, nextOid, left, removals, delOk >>

\* await writeJsonData(data) completes, and the handler responds
WriteJson(c) ==
  /\ reqs[c].pc = "writeJson"
  /\ LET r == reqs[c]
         list == DataLinks(r.data, r.key)
         idx == FindIndex(list, r.id)
     IN IF r.op = "add"
        THEN /\ file' = WrittenDocument(PushLink(r.data, r.key, r.newLink), file)
             /\ reqs' = [reqs EXCEPT ![c] = Respond([r EXCEPT !.writes = @ + 1], 201, r.newLink)]
             /\ delOk' = delOk
        ELSE /\ file' = WrittenDocument(SpliceLink(r.data, r.key, idx), file)
             /\ reqs' = [reqs EXCEPT ![c] = Respond([r EXCEPT !.writes = @ + 1], 200, list[idx])]
             /\ delOk' = Deleted(c, r.key, r.id)
  /\ fileExists' = TRUE
  /\ UNCHANGED << useDb, db, clock, nextOid, left, removals >>

\* ---- the database commands, one action per await
\* await Link.find(...).sort(...).lean() completes
DbFind(c) ==
  /\ reqs[c].pc = "find"
  /\ LET r == reqs[c]
     IN reqs' = [reqs EXCEPT ![c] =
          IF r.op = "getAll"
          THEN Respond(r, 200, [k \in SubjectKeys |->
                 [name |-> SUBJECTS[k].name, links |-> ToJSONList(FindSorted(db, k))]])
          ELSE Respond(r, 200, ToJSONList(FindSorted(db, r.key)))]
  /\ UNCHANGED << useDb, fileExists, file, db, clock, nextOid, left, removals, delOk >>

\* await Link.create(...) completes: the document is validated against the
\* schema (subjectKey: enum Object.keys(SUBJECTS)) and inserted
DbSave(c) ==
  /\ reqs[c].pc = "save"
  /\ LET r == reqs[c]
     IN IF r.newLink.subjectKey \notin SubjectKeys
        THEN \* ValidationError, caught by the handler
             /\ reqs' = [reqs EXCEPT ![c] = Respond(r, 500, FailureMessage("add"))]
             /\ db' = db
        ELSE /\ db' = Append(db, r.newLink)
             /\ reqs' = [reqs EXCEPT ![c] =
                  Respond([r EXCEPT !.writes = @ + 1], 201, ToJSON(r.newLink))]
  /\ UNCHANGED << useDb, fileExists, file, clock, nextOid, left, removals, delOk >>

\* await Link.findOneAndDelete({ _id, subjectKey }).lean() completes
DbFindOneAndDelete(c) ==
  /\ reqs[c].pc = "findOneAndDelete"
  /\ LET r == reqs[c]
         hits == {i \in 1..Len(db) : MatchesDelete(db[i], r.key, r.id)}
     IN IF ~CastsToObjectId(r.id)
        THEN \* CastError, caught by the handler
             /\ reqs' = [reqs EXCEPT ![c] = Respond(r, 500, FailureMessage("delete"))]
             /\ UNCHANGED << db, delOk >>
        ELSE IF hits = {}
        THEN /\ reqs' = [reqs EXCEPT ![c] = Respond(r, 404, [error |-> "Link not found"])]
             /\ UNCHANGED << db, delOk >>
        ELSE LET i == CHOOSE i \in hits : \A j \in hits : i <= j
             IN /\ db' = Splice(db, i)
                /\ reqs' = [reqs EXCEPT ![c] =
                     Respond([r EXCEPT !.writes = @ + 1], 200, ToJSON(db[i]))]
                /\ delOk' = Deleted(c, r.key, r.id)
  /\ UNCHANGED << useDb, fileExists, file, clock, nextOid, left, removals >>

Next ==
  \/ RemoveDataFile
  \/ \E c \in Clients : Consume(c)
  \/ \E c \in Clients : GetAllSubjects(c)
  \/ \E c \in Clients, key \in ReqKeys : GetSubjectLinks(c, key)
  \/ \E c \in Clients, key \in ReqKeys, body \in Bodies : AddLink(c, key, body)
  \/ \E c \in Clients, key \in ReqKeys, id \in IdParams : DeleteLink(c, key, id)
  \/ \E c \in Clients : PathExists(c)
  \/ \E c \in Clients : WriteDefault(c)
  \/ \E c \in Clients : ReadJson(c)
  \/ \E c \in Clients : Stamp(c)
  \/ \E c \in Clients : WriteJson(c)
  \/ \E c \in Clients : DbFind(c)
  \/ \E c \in Clients : DbSave(c)
  \/ \E c \in Clients : DbFindOneAndDelete(c)

Spec == Init /\ [][Next]_vars

\* The File variant within one millisecond, the data file never removed,
\* one request more: the case of two links created in the same tick.
InitSameTick ==
  /\ useDb = FALSE
  /\ fileExists = TRUE
  /\ file = defaultJsonData
  /\ db = << >>
  /\ clock = Epoch + MaxTicks
  /\ nextOid = 1
  /\ reqs = [c \in Clients |-> [pc |-> "idle"]]
  /\ left = MaxRequests + 1
  /\ removals = MaxRemovals
  /\ delOk = {}

NextSameTick ==
  \/ \E c \in Clients : Consume(c)
  \/ \E c \in Clients : GetAllSubjects(c)
  \/ \E c \in Clients, key \in ReqKeys : GetSubjectLinks(c, key)
  \/ \E c \in Clients, key \in ReqKeys, body \in Bodies : AddLink(c, key, body)
  \/ \E c \in Clients, key \in ReqKeys, id \in IdParams : DeleteLink(c, key, id)
  \/ \E c \in Clients : PathExists(c)
  \/ \E c \in Clients : ReadJson(c)
  \/ \E c \in Clients : Stamp(c)
  \/ \E c \in Clients : WriteJson(c)

SpecSameTick == InitSameTick /\ [][NextSameTick]_vars

(***************************************************************************)
(* The claims                                                              *)
(***************************************************************************)
Range(s) == {s[i] : i \in 1..Len(s)}

Done(c) == reqs[c].pc = "done"

\* what getSubjectLinks(k) answers for a subject k in the current store
StoredList(k) == IF useDb THEN ToJSONList(FindSorted(db, k)) ELSE file[k].links

\* title and url are both present and non-empty
HasTitleAndUrl(body) == ~Falsy(body.title) /\ ~Falsy(body.url)

\* C1: for every key outside {toc, ai, sepm, cn, rm}, getSubjectLinks,
\* addLink and deleteLink fail with 404 and write nothing.  (Stated for
\* an addLink with a title and an absolute url; one without them is
\* answered 400 before the key is looked at, see C4.)
C1_UnknownKeyIsNotFound ==
  \A c \in Clients :
    (/\ Done(c)
     /\ reqs[c].op \in {"get", "add", "delete"}
     /\ reqs[c].key \notin SubjectKeys
     /\ (reqs[c].op = "add" =>
           HasTitleAndUrl(reqs[c].body) /\ URLParses(reqs[c].body.url)))
    => (reqs[c].status = 404 /\ reqs[c].writes = 0)

\* the step in which the POST on c answers 201
AddCompletes(c) ==
  /\ reqs[c].pc \in {"writeJson", "save"}
  /\ reqs[c].op = "add"
  /\ reqs'[c].pc = "done"
  /\ reqs'[c].status = 201

\* the step in which the DELETE on c answers 200
DeleteCompletes(c) ==
  /\ reqs[c].pc \in {"writeJson", "findOneAndDelete"}
  /\ reqs[c].op = "delete"
  /\ reqs'[c].pc = "done"
  /\ reqs'[c].status = 200

\* no other request has rewritten the store since the request on c read it
\* (a database command reads and writes in one step)
StoreAsRead(c) == useDb \/ (fileExists /\ file = reqs[c].data)

\* C2: round trip.  After a successful addLink(k, title, url) with addedBy
\* omitted, getSubjectLinks(k) is the previous sequence for k plus exactly
\* one new element, which has the given title and url, subjectKey k,
\* addedBy "admin", and an id that no element of the previous sequence has.
C2_RoundTrip ==
  [][\A c \in Clients :
       (AddCompletes(c) /\ StoreAsRead(c) /\ reqs[c].body.addedBy = Undefined)
       => LET k == reqs[c].key
              prev == StoredList(k)
              after == StoredList(k)'
              new == reqs'[c].resp
          IN /\ \E i \in 1..Len(after) : after[i] = new /\ Splice(after, i) = prev
             /\ new.title = reqs[c].body.title
             /\ new.url = reqs[c].body.url
             /\ new.subjectKey = k
             /\ new.addedBy = "admin"
             /\ \A j \in 1..Len(prev) : prev[j]._id # new._id]_vars

\* C3: in the File variant no two links of the stored document have the
\* same id, under one subject or under two.
C3_UniqueIds ==
  ~useDb =>
    \A k1, k2 \in SubjectKeys :
      \A i \in 1..Len(file[k1].links), j \in 1..Len(file[k2].links) :
        (k1 # k2 \/ i # j) => IdOf(file[k1].links[i]) # IdOf(file[k2].links[j])

\* C4 as stated: addLink fails with 400 whenever title or url is missing or
\* empty or url does not parse as an absolute URL, and writes nothing.
C4_BadRequestWhenever ==
  \A c \in Clients :
    (/\ Done(c)
     /\ reqs[c].op = "add"
     /\ (~HasTitleAndUrl(reqs[c].body) \/ ~URLParses(reqs[c].body.url)))
    => (reqs[c].status = 400 /\ reqs[c].writes = 0)

\* C4 as amended: addLink fails with 400 whenever title or url is missing or
\* empty, whatever the key, and whenever they are present, the subject
\* lookup accepts the key and url does not parse as an absolute URL; with
\* title and url present and a key the subject lookup rejects it fails with
\* 404, URL parsing is not reached.  In each case it writes nothing.
C4_BadRequest ==
  \A c \in Clients :
    (Done(c) /\ reqs[c].op = "add")
    => LET b == reqs[c].body
       IN /\ ~HasTitleAndUrl(b) => (reqs[c].status = 400 /\ reqs[c].writes = 0)
          /\ (HasTitleAndUrl(b) /\ ~SubjectResolves(reqs[c].key))
               => (reqs[c].status = 404 /\ reqs[c].writes = 0)
          /\ (HasTitleAndUrl(b) /\ SubjectResolves(reqs[c].key) /\ b.url \notin AbsoluteUrls)
               => (reqs[c].status = 400 /\ reqs[c].writes = 0)

\* an addLink under a known subject with a url that does not parse got 400
C4_Witness ==
  \E c \in Clients :
    /\ Done(c)
    /\ reqs[c].op = "add"
    /\ reqs[c].key \in SubjectKeys
    /\ reqs[c].body.url = "not-a-url"
    /\ reqs[c].status = 400

\* C5: delete-miss.  Once deleteLink(k, id) has succeeded, a second
\* deleteLink(k, id) with no addLink in between fails with 404 and writes
\* nothing.
C5_SecondDeleteIsNotFound ==
  \A c \in Clients :
    (Done(c) /\ reqs[c].op = "delete" /\ reqs[c].afterDel)
    => (reqs[c].status = 404 /\ reqs[c].writes = 0)

Mutated(c) ==
  \/ reqs[c].op = "add" /\ reqs[c].status = 201
  \/ reqs[c].op = "delete" /\ reqs[c].status = 200

\* C7 as stated: a successful addLink or deleteLink writes the store exactly
\* once, and getAllSubjects and getSubjectLinks never write it.
C7_WritesOnce ==
  \A c \in Clients :
    Done(c) =>
      /\ Mutated(c) => reqs[c].writes = 1
      /\ reqs[c].op \in {"get", "getAll"} => reqs[c].writes = 0

\* C7 as amended: a call that finds the data file in place (and every call
\* of the Database variant) writes the store exactly once when it is a
\* successful addLink or deleteLink and never when it is a get; a call of
\* the File variant that finds the data file missing, a get included, first
\* writes the default document, one write more.
C7_WritesOnceAfterEnsure ==
  \A c \in Clients :
    Done(c) =>
      LET ensured == IF reqs[c].sawMissing THEN 1 ELSE 0
      IN /\ reqs[c].sawMissing => ~useDb
         /\ Mutated(c) => reqs[c].writes = 1 + ensured
         /\ reqs[c].op \in {"get", "getAll"} => reqs[c].writes = ensured

\* a get that found the data file missing has written it
C7_Witness ==
  \E c \in Clients :
    /\ Done(c)
    /\ reqs[c].op = "get"
    /\ reqs[c].status = 200
    /\ reqs[c].sawMissing
    /\ reqs[c].writes = 1

\* C8: for every known subject k, in every interleaving of the requests,
\* what getSubjectLinks(k) returns is sorted ascending by addedAt.
C8_SortedByAddedAt ==
  \A c \in Clients :
    (Done(c) /\ reqs[c].op = "get" /\ reqs[c].status = 200 /\ reqs[c].key \in SubjectKeys)
    => \A i, j \in 1..Len(reqs[c].resp) :
         i < j => IsoLeq(reqs[c].resp[i].addedAt, reqs[c].resp[j].addedAt)

\* a get returned two links created at different times
C8_Witness ==
  \E c \in Clients :
    /\ Done(c)
    /\ reqs[c].op = "get"
    /\ reqs[c].status = 200
    /\ Len(reqs[c].resp) >= 2
    /\ reqs[c].resp[1].addedAt # reqs[c].resp[2].addedAt

\* C9: in the File variant the rewrite of an addLink replaces the document
\* by the one that addLink read plus its own link: a link another request
\* has added to the file since that read is discarded, and both answer 201.
C9_LaterRewriteDiscards ==
  [][\A c \in Clients :
       (AddCompletes(c) /\ ~useDb)
       => \A k \in SubjectKeys :
            \A l \in Range(file[k].links) :
              (l \notin Range(reqs[c].data[k].links) /\ l # reqs[c].newLink)
              => l \notin Range(file'[k].links)]_vars

\* two addLink calls have both answered 201 and the stored document holds
\* the link of one of them only
C9_LostUpdate ==
  /\ ~useDb
  /\ \E c1, c2 \in Clients :
       /\ c1 # c2
       /\ Done(c1) /\ reqs[c1].op = "add" /\ reqs[c1].status = 201
       /\ Done(c2) /\ reqs[c2].op = "add" /\ reqs[c2].status = 201
       /\ reqs[c1].resp # reqs[c2].resp
       /\ reqs[c2].resp \in Range(file[reqs[c2].key].links)
       /\ reqs[c1].resp \notin Range(file[reqs[c1].key].links)

\* C10: in the File variant, once deleteLink(k, id) has answered 200 for a
\* record, that record is not in the stored document again (unless an
\* addLink has created an equal record anew).
C10_DeletedStaysDeleted ==
  \A c \in Clients :
    (Done(c) /\ reqs[c].op = "delete" /\ reqs[c].status = 200 /\ ~useDb)
    => \/ reqs[c].resp \notin Range(file[reqs[c].key].links)
       \/ \E o \in Clients :
            Done(o) /\ reqs[o].op = "add" /\ reqs[o].status = 201 /\ reqs[o].resp = reqs[c].resp

====
